---- MODULE Spec2Model ----
(***************************************************************************)
(* Scene-graph transform resolution of hotham:                             *)
(*   hotham/src/systems/update_parent_transform_matrix.rs                  *)
(*                                                                         *)
(* The entity store (hecs::World) is modelled by the components the system *)
(* reads and writes: TransformMatrix and Parent.  One action models one    *)
(* whole call of update_parent_transform_matrix_system; the store is       *)
(* borrowed mutably for the call, so nothing interleaves with it.          *)
(*                                                                         *)
(* Matrix4<f32> is modelled by 2x2 integer matrices <<a, b, c, d>> (rows   *)
(* (a b) and (c d)) under true matrix multiplication: a homogeneous        *)
(* transform of a line, with a translation and a scale that do not         *)
(* commute.  Floating point rounding is not modelled.                      *)
(***************************************************************************)
EXTENDS Integers, Sequences, FiniteSets, TLC

\* ------------------------------------------------------------------ bounds
NumEntities == 4   \* entity handles the store may issue
MaxScene == 3      \* entities spawned in a scene that is edited afterwards
MaxOffset == 2     \* translations 1..MaxOffset, for the scenes that only translate
MaxEdits == 1      \* insert_one / remove_one / despawn calls after spawning
MaxPasses == 2     \* calls of update_parent_transform_matrix_system

Entities == 1..NumEntities
\* Option::None of a component lookup: no Parent, no TransformMatrix
NoEntity == 0
NoMatrix == << >>

\* ---------------------------------------------------------------- matrices
\* parent_matrix * *child_matrix
MatMul(x, y) ==
    << x[1] * y[1] + x[2] * y[3], x[1] * y[2] + x[2] * y[4],
       x[3] * y[1] + x[4] * y[3], x[3] * y[2] + x[4] * y[4] >>

\* Matrix4::new_translation
Translation(t) == << 1, t, 0, 1 >>
\* a uniform scaling, as Matrix4::new_nonuniform_scaling gives
Scaling(s) == << s, 0, 0, 1 >>

\* the matrices entities are spawned with: a translation and a scaling, which
\* do not commute
MatrixInputs == { Translation(1), Scaling(2) }

VARIABLES
    spawned,    \* number of entity handles issued so far
    alive,      \* entities present in the store
    matrix,     \* TransformMatrix component of each entity, or NoMatrix
    parent,     \* Parent component of each entity, or NoEntity
    local,      \* history: the matrix upstream gave the entity at spawn
    before,     \* history: matrix as it was when the last pass began
    hierarchy,  \* the map the last pass built (parent -> children, in order)
    outcome,    \* how the last pass ended: "none", "ok", "panic", "overflow"
    streak,     \* passes run in succession since the last other operation
    moved,      \* history: entity re-parented or un-parented since the last pass
    edits,      \* insert_one / remove_one / despawn calls so far
    passes,     \* passes run so far
    log         \* history: what the pass just run did, step by step

vars == << spawned, alive, matrix, parent, local, before, hierarchy,
           outcome, streak, moved, edits, passes, log >>

\* the game of examples/beat-saber-clone, modelled further below
VARIABLES
    state,          \* game_context.state
    current_score,  \* game_context.current_score
    visible,        \* entities with a Visible component
    rigid_body,     \* entities with a RigidBody component
    collider,       \* entities with a Collider component
    sound,          \* SoundEmitter component of each cube: "None", "Hit", "Miss"
    info,           \* entities with an Info component
    panel,          \* Panel of main_menu_panel: text and buttons
    score_text,     \* Panel text of score_panel
    track,          \* audio_context.current_music_track
    elapsed,        \* Instant::now() - game_context.last_spawn_time, in time units
    haptic,         \* amplitudes requested of haptic_context this frame
    collisions,     \* collisions_this_frame of blue saber, red saber, backstop
    crashed,        \* "no", or the panic that ended the process
    prev,           \* history: what the last tick began with and what it touched
    returned        \* history: what run returned in the last tick

gameVars == << state, current_score, visible, rigid_body, collider, sound, info,
               panel, score_text, track, elapsed, haptic, collisions, crashed,
               prev, returned >>

NoMatrices == [e \in Entities |-> NoMatrix]
EmptyMap == [e \in {} |-> << >>]

\* World::new(), and the history of the pass empty
NewWorld ==
    /\ spawned = 0
    /\ alive = {}
    /\ matrix = NoMatrices
    /\ parent = [e \in Entities |-> NoEntity]
    /\ local = NoMatrices
    /\ before = NoMatrices
    /\ hierarchy = EmptyMap
    /\ outcome = "none"
    /\ streak = 0
    /\ moved = NoEntity
    /\ edits = 0
    /\ passes = 0
    /\ log = << >>

\* the process is still running: a panic or a stack overflow ends it
Running == outcome \in {"none", "ok"}

\* ------------------------------------------------------------------- store
\* the scene is spawned first, then edited and resolved frame by frame
SettingUp == edits = 0 /\ passes = 0
\* an edit after the last pass of a run would be seen by no pass
CanEdit == edits < MaxEdits /\ passes < MaxPasses

\* world.spawn((matrix,)), world.spawn((matrix, Parent(p))), world.spawn((0,))
Spawn(m, p) ==
    /\ Running
    /\ spawned < NumEntities
    /\ SettingUp
    /\ p \in (1..spawned) \cup {NoEntity}
    /\ m = NoMatrix => p = NoEntity
    /\ LET e == spawned + 1 IN
        /\ spawned' = e
        /\ alive' = alive \cup {e}
        /\ matrix' = [matrix EXCEPT ![e] = m]
        /\ local' = [local EXCEPT ![e] = m]
        /\ parent' = [parent EXCEPT ![e] = p]
    /\ streak' = 0
    /\ log' = << >>
    /\ UNCHANGED << before, hierarchy, outcome, moved, edits, passes >>
    /\ UNCHANGED gameVars

\* world.insert_one(entity, Parent(p)): adds the component or replaces it
InsertParent(e, p) ==
    /\ Running
    /\ CanEdit
    /\ e \in alive
    /\ p \in 1..spawned
    /\ parent[e] # p
    /\ parent' = [parent EXCEPT ![e] = p]
    /\ moved' = IF parent[e] # NoEntity /\ passes > 0 THEN e ELSE NoEntity
    /\ edits' = edits + 1
    /\ streak' = 0
    /\ log' = << >>
    /\ UNCHANGED << spawned, alive, matrix, local, before, hierarchy, outcome, passes >>
    /\ UNCHANGED gameVars

\* world.remove_one::<Parent>(entity): the entity becomes parentless
RemoveParent(e) ==
    /\ Running
    /\ CanEdit
    /\ e \in alive
    /\ parent[e] # NoEntity
    /\ parent' = [parent EXCEPT ![e] = NoEntity]
    /\ moved' = IF passes > 0 THEN e ELSE NoEntity
    /\ edits' = edits + 1
    /\ streak' = 0
    /\ log' = << >>
    /\ UNCHANGED << spawned, alive, matrix, local, before, hierarchy, outcome, passes >>
    /\ UNCHANGED gameVars

\* world.despawn(entity): the entity and its components leave the store;
\* Parent components naming it stay as they are
Despawn(e) ==
    /\ Running
    /\ CanEdit
    /\ e \in alive
    /\ alive' = alive \ {e}
    /\ matrix' = [matrix EXCEPT ![e] = NoMatrix]
    /\ parent' = [parent EXCEPT ![e] = NoEntity]
    /\ moved' = NoEntity
    /\ edits' = edits + 1
    /\ streak' = 0
    /\ log' = << >>
    /\ UNCHANGED << spawned, local, before, hierarchy, outcome, passes >>
    /\ UNCHANGED gameVars

\* --------------------------------------------------------------- the pass
\* the orders in which a query may yield the set S of entities it matches
RECURSIVE QueryOrders(_)
QueryOrders(S) ==
    IF S = {} THEN { << >> }
    ELSE UNION { { << e >> \o rest : rest \in QueryOrders(S \ {e}) } : e \in S }

\* hierarchy.insert(parent.0, vec![entity]): the list is replaced, not extended
EntryOverwrites(h, k, c) ==
    [x \in DOMAIN h \cup {k} |-> IF x = k THEN << c >> ELSE h[x]]

\* hierarchy.entry(parent.0).or_default(); children.push(entity)
Entry(h, k, c) ==
    IF k \in DOMAIN h
    THEN [h EXCEPT ![k] = Append(@, c)]
    ELSE [x \in DOMAIN h \cup {k} |-> IF x = k THEN << c >> ELSE h[x]]

\* a parent query that looks the parent up and drops a relation to an entity
\* that is gone
HasLiveParent(e) == e \in alive /\ parent[e] # NoEntity /\ parent[e] \in alive

\* parent_query: PreparedQuery<&Parent> yields the entities that have a Parent
HasParent(e) == e \in alive /\ parent[e] # NoEntity

RECURSIVE BuildFrom(_, _, _)
BuildFrom(ord, i, h) ==
    IF i > Len(ord) THEN h
    ELSE BuildFrom(ord, i + 1, Entry(h, parent[ord[i]], ord[i]))

\* a map kept from the previous invocation instead of being rebuilt
BuildHierarchyCached(ord) ==
    IF passes > 0 THEN hierarchy ELSE BuildFrom(ord, 1, EmptyMap)

\* "Build hierarchy": the loop over parent_query
BuildHierarchy(ord) == BuildFrom(ord, 1, EmptyMap)

\* a roots query that forgot Without<Parent>
IsRootAny(e) == e \in alive /\ matrix[e] # NoMatrix

\* a roots query that also starts at the entities whose parent is gone
IsRootOrOrphan(e) ==
    /\ e \in alive
    /\ matrix[e] # NoMatrix
    /\ parent[e] # NoEntity => parent[e] \notin alive

\* a roots query that does not ask for a TransformMatrix
IsRootBare(e) == e \in alive /\ parent[e] = NoEntity

\* roots_query: PreparedQuery<Without<Parent, &TransformMatrix>>
IsRoot(e) == e \in alive /\ matrix[e] # NoMatrix /\ parent[e] = NoEntity

ComposeSwapped(parent_matrix, child_matrix) == MatMul(child_matrix, parent_matrix)

ComposeDropsChild(parent_matrix, child_matrix) == parent_matrix

\* *child_matrix = parent_matrix * *child_matrix
Compose(parent_matrix, child_matrix) == MatMul(parent_matrix, child_matrix)

\* the recursion that hands down the matrix it was given
DescendStale(parent_matrix, child_matrix) == parent_matrix

\* the matrix handed to the recursive call: the child's, read back after the write
Descend(parent_matrix, child_matrix) == child_matrix

\* a missing component that is skipped instead of unwrapped
UnwrapFailedSkips(st) == st

\* world.get_mut::<TransformMatrix>(*child).unwrap() on Err(MissingComponent)
UnwrapFailed(st) == [st EXCEPT !.status = "panic"]

\* the write that lands on the node itself instead of the child
WriteTargetSelf(entity, child) == entity

\* the entity whose TransformMatrix the loop body writes: *child
WriteTarget(entity, child) == child

\* the call stack is finite: a recursion deeper than the number of entities
\* has re-entered an entity and never returns
StackExhausted(depth) == depth > NumEntities

RECURSIVE UpdateTransformMatrix(_, _, _, _, _), VisitChildren(_, _, _, _, _, _, _)

\* the steps a pass is observed by: the parent query yielding entity e
\* ("scan"), a call of update_transform_matrix for e with matrix m ("visit"),
\* and the assignment of m to e's TransformMatrix in the loop over the
\* children of entity under ("write")
Scanned(e) == [op |-> "scan", e |-> e, under |-> NoEntity, m |-> NoMatrix]
Visited(e, m) == [op |-> "visit", e |-> e, under |-> NoEntity, m |-> m]
Wrote(e, under, m) == [op |-> "write", e |-> e, under |-> under, m |-> m]

\* a loop that writes every child of the node before it descends into any
RECURSIVE WriteSiblings(_, _, _, _, _), VisitSiblings(_, _, _, _, _)
WriteSiblings(parent_matrix, entity, children, i, st) ==
    IF st.status # "ok" \/ i > Len(children) THEN st
    ELSE IF st.m[children[i]] = NoMatrix THEN [st EXCEPT !.status = "panic"]
    ELSE LET m == MatMul(parent_matrix, st.m[children[i]]) IN
         WriteSiblings(parent_matrix, entity, children, i + 1,
             [st EXCEPT !.m[children[i]] = m,
                        !.log = Append(@, Wrote(children[i], entity, m))])
VisitSiblings(children, i, h, st, depth) ==
    IF st.status # "ok" \/ i > Len(children) THEN st
    ELSE VisitSiblings(children, i + 1, h,
             UpdateTransformMatrix(st.m[children[i]], children[i], h, st, depth + 1),
             depth)
VisitChildrenBreadthFirst(parent_matrix, entity, children, i, h, st, depth) ==
    VisitSiblings(children, i, h,
                  WriteSiblings(parent_matrix, entity, children, i, st), depth)

\* fn update_transform_matrix(parent_matrix, entity, hierarchy, world)
UpdateTransformMatrix(parent_matrix, entity, h, st, depth) ==
    IF StackExhausted(depth) THEN [st EXCEPT !.status = "overflow"]
    ELSE LET called == [st EXCEPT !.log = Append(@, Visited(entity, parent_matrix))]
         IN  IF entity \in DOMAIN h
             THEN VisitChildren(parent_matrix, entity, h[entity], 1, h, called, depth)
             ELSE called

\* for child in children { ... }
VisitChildren(parent_matrix, entity, children, i, h, st, depth) ==
    IF st.status # "ok" \/ i > Len(children) THEN st
    ELSE LET child == children[i]
             target == WriteTarget(entity, child)
         IN  IF st.m[child] = NoMatrix \/ st.m[target] = NoMatrix
             THEN UnwrapFailed(st)
             ELSE LET written == [st.m EXCEPT ![target] = Compose(parent_matrix, st.m[child])]
                      st1 == [st EXCEPT !.m = written,
                                        !.log = Append(@, Wrote(target, entity, written[target]))]
                      st2 == UpdateTransformMatrix(Descend(parent_matrix, written[child]),
                                                   child, h, st1, depth + 1)
                  IN  VisitChildren(parent_matrix, entity, children, i + 1, h, st2, depth)

\* for (root, root_matrix) in roots.iter() { update_transform_matrix(...) }
RECURSIVE VisitRoots(_, _, _, _)
VisitRoots(roots, i, h, st) ==
    IF st.status # "ok" \/ i > Len(roots) THEN st
    ELSE VisitRoots(roots, i + 1, h,
                    UpdateTransformMatrix(st.m[roots[i]], roots[i], h, st, 1))

\* pub fn update_parent_transform_matrix_system(parent_query, roots_query, world),
\* the two queries yielding their entities in the orders given
RunPass(parentOrder, rootOrder) ==
    LET h == BuildHierarchy(parentOrder)
        scan == [i \in 1..Len(parentOrder) |-> Scanned(parentOrder[i])]
        st == VisitRoots(rootOrder, 1, h, [m |-> matrix, status |-> "ok", log |-> scan])
    IN  [h |-> h, m |-> st.m, status |-> st.status, log |-> st.log]

\* every result the pass can have on the store as it is, over the query orders
PassResults ==
    { RunPass(po, ro) : po \in QueryOrders({ e \in Entities : HasParent(e) }),
                        ro \in QueryOrders({ e \in Entities : IsRoot(e) }) }

Pass ==
    /\ Running
    /\ passes < MaxPasses
    /\ \E r \in PassResults :
        /\ matrix' = r.m
        /\ hierarchy' = r.h
        /\ outcome' = r.status
        /\ log' = r.log
    /\ before' = matrix
    /\ streak' = streak + 1
    /\ moved' = IF streak = 0 THEN moved ELSE NoEntity
    /\ passes' = passes + 1
    /\ UNCHANGED << spawned, alive, parent, local, edits >>
    /\ UNCHANGED gameVars


(***************************************************************************)
(* The game of examples/beat-saber-clone: src/systems/game.rs              *)
(*                                                                         *)
(* One action models one whole call of game_system: run, and transition    *)
(* when run returns a next state.  What the frame brings in from outside   *)
(* (the time that passed, the collisions physics reported, the colour the  *)
(* random generator gives, the order the cube query and the song map       *)
(* iterate in) is an input of the action.  A panic ends the process.       *)
(***************************************************************************)
NumCubes == 2      \* cubes in the pre-spawned pool
MaxHits == 2       \* collisions reported in one frame, over the three colliders
MaxScore == 1      \* highest score a game is played up to
MaxElapsed == 2    \* time since the last spawn is tracked up to this

\* game_context.last_spawn_time -= Duration::new(100, 0): 100 s, in time
\* units of half a second
MenuRewind == 200

\* the entities GameContext holds, and the cubes of the pool
Cubes == 1..NumCubes
BlueSaber == NumCubes + 1
RedSaber == NumCubes + 2
Backstop == NumCubes + 3
Pointer == NumCubes + 4
MainMenuPanel == NumCubes + 5
ScorePanel == NumCubes + 6

\* the Colour component: the pool holds cubes of both colours
ColourOf(e) ==
    IF e = BlueSaber THEN "Blue"
    ELSE IF e = RedSaber THEN "Red"
    ELSE IF e \in Cubes THEN (IF e % 2 = 1 THEN "Red" ELSE "Blue")
    ELSE "None"

\* game_context.songs: title -> beat_length, in time units of half a second;
\* the two tracks that are no game have beat length 0
NoSong == "none"
BeatLength(title) ==
    CASE title = "Main Menu" -> 0
      [] title = "Game Over" -> 0
      [] title = "Spence - Right Here Beside You" -> 1
SongTitles == { "Main Menu", "Game Over", "Spence - Right Here Beside You" }

\* GameState
GameAt(name) == [name |-> name, song |-> NoSong]
\* a main menu that answers a click with GameOver
PlayingSkipped(song) == [name |-> "GameOver", song |-> NoSong]
Playing(song) == [name |-> "Playing", song |-> song]
\* Option::None of run
NoState == GameAt("None")

\* PanelButton::new(text)
PanelButton(text) == [text |-> text, clicked_this_frame |-> FALSE]

NoCollisions == [blue |-> << >>, red |-> << >>, backstop |-> << >>]
NoHaptics == [left |-> 0, right |-> 0]

\* the world and the contexts as one value, for the functions below
Context ==
    [ state |-> state, current_score |-> current_score, visible |-> visible,
      rigid_body |-> rigid_body, collider |-> collider, sound |-> sound,
      panel |-> panel, score_text |-> score_text, track |-> track,
      elapsed |-> elapsed, haptic |-> haptic, crashed |-> crashed ]

\* an is_cube that does not ask for the Cube component
IsCubeByBody(e, w) ==
    e \in w.visible /\ e \in w.collider /\ e \in w.rigid_body

\* live_cubes_query and is_cube: Cube, Visible, Collider and RigidBody
IsCube(e, w) ==
    e \in Cubes /\ e \in w.visible /\ e \in w.collider /\ e \in w.rigid_body
LiveCubes(w) == { e \in Cubes : IsCube(e, w) }
\* dead_cubes_query: the cubes of the pool that are not shown
DeadCubes(w) == { e \in Cubes : e \notin w.visible }

Panic(w, what) == [w EXCEPT !.crashed = what]

\* world.insert_one(e, Visible {}) and world.remove_one::<Visible>(e)
Show(w, es) == [w EXCEPT !.visible = @ \cup es]
\* a transition that hides nothing
HideNothing(w, es) == w
Hide(w, es) == [w EXCEPT !.visible = @ \ es]

\* the time since the last spawn, tracked up to MaxElapsed
Saturate(t) == IF t > MaxElapsed THEN MaxElapsed ELSE t

\* a removal that leaves the cube on show
RemoveBundleKeepsVisible(w, e) ==
    [w EXCEPT !.rigid_body = @ \ {e}, !.collider = @ \ {e}]

\* drop(world.remove::<(RigidBody, Collider, Visible)>(e)): all three or none
RemoveBundle(w, e) ==
    IF e \in w.rigid_body /\ e \in w.collider /\ e \in w.visible
    THEN [w EXCEPT !.rigid_body = @ \ {e}, !.collider = @ \ {e}, !.visible = @ \ {e}]
    ELSE w

\* a disposal that leaves the cubes in play
DisposeNone(cubes_to_dispose, i, w) == w

\* fn dispose_of_cubes: without a RigidBody the cube's Info is unwrapped
RECURSIVE DisposeOfCubes(_, _, _)
DisposeOfCubes(cubes_to_dispose, i, w) ==
    IF w.crashed # "no" \/ i > Len(cubes_to_dispose) THEN w
    ELSE LET e == cubes_to_dispose[i] IN
         IF e \in w.rigid_body \/ e \in info
         THEN DisposeOfCubes(cubes_to_dispose, i + 1, RemoveBundle(w, e))
         ELSE Panic(w, "no Info")

\* fn play_sound_effects: insert_one adds the emitter or replaces the one there
RECURSIVE PlaySoundEffects(_, _, _)
PlaySoundEffects(pending_effects, i, w) ==
    IF i > Len(pending_effects) THEN w
    ELSE PlaySoundEffects(pending_effects, i + 1,
            [w EXCEPT !.sound[pending_effects[i][1]] = pending_effects[i][2]])

\* a blue saber that scores every cube as a hit
BlueSaberAlwaysHits(colour) == [delta |-> 1, effect |-> "Hit"]

\* match *colour, in the loop over the blue saber's collisions
BlueSaberScores(colour) ==
    IF colour = "Red" THEN [delta |-> -1, effect |-> "Miss"]
    ELSE [delta |-> 1, effect |-> "Hit"]
\* match *colour, in the loop over the red saber's collisions
RedSaberScores(colour) ==
    IF colour = "Red" THEN [delta |-> 1, effect |-> "Hit"]
    ELSE [delta |-> -1, effect |-> "Miss"]
\* the loop over the backstop's collisions
BackstopScores == [delta |-> -1, effect |-> "Miss"]

Scores(who, cube) ==
    CASE who = "blue" -> BlueSaberScores(ColourOf(cube))
      [] who = "red" -> RedSaberScores(ColourOf(cube))
      [] who = "backstop" -> BackstopScores

\* haptic_context.request_haptic_feedback(1., Handedness::Right / Left)
RequestHapticFeedback(who, h) ==
    CASE who = "blue" -> [h EXCEPT !.right = 1]
      [] who = "red" -> [h EXCEPT !.left = 1]
      [] who = "backstop" -> h

\* for c in &collider.collisions_this_frame { ... }, for one of the three
RECURSIVE CheckCollider(_, _, _, _, _)
CheckCollider(who, hits, i, w, acc) ==
    IF i > Len(hits) THEN acc
    ELSE LET c == hits[i] IN
         IF ~IsCube(c, w) THEN CheckCollider(who, hits, i + 1, w, acc)
         ELSE LET s == Scores(who, c) IN
              CheckCollider(who, hits, i + 1, w,
                  [ score |-> acc.score + s.delta,
                    pending |-> Append(acc.pending, << c, s.effect >>),
                    dispose |-> Append(acc.dispose, c),
                    haptic |-> RequestHapticFeedback(who, acc.haptic) ])

\* fn check_for_hits
CheckForHits(w, hits) ==
    LET a0 == [ score |-> w.current_score, pending |-> << >>, dispose |-> << >>,
                haptic |-> w.haptic ]
        a1 == CheckCollider("blue", hits.blue, 1, w, a0)
        a2 == CheckCollider("red", hits.red, 1, w, a1)
        a3 == CheckCollider("backstop", hits.backstop, 1, w, a2)
        scored == [w EXCEPT !.current_score = a3.score, !.haptic = a3.haptic]
    IN  DisposeOfCubes(a3.dispose, 1, PlaySoundEffects(a3.pending, 1, scored))

\* a spawn that is already due when exactly one beat has passed
ShouldSpawnCubeOnBeat(w, song) == w.elapsed >= BeatLength(song)

\* fn should_spawn_cube
ShouldSpawnCube(w, song) == w.elapsed > BeatLength(song)

\* fn revive_cube, and *last_spawn_time = Instant::now()
ReviveCube(w, e) ==
    [w EXCEPT !.rigid_body = @ \cup {e}, !.collider = @ \cup {e},
              !.visible = @ \cup {e}, !.elapsed = 0]

\* fn spawn_cube, over the colours random() gives and the dead cubes the
\* query may yield first
SpawnCube(w, song) ==
    IF ~ShouldSpawnCube(w, song) THEN { w }
    ELSE UNION { LET found == { e \in DeadCubes(w) : ColourOf(e) = colour }
                 IN  IF found = {} THEN { Panic(w, "no dead cube") }
                     ELSE { ReviveCube(w, e) : e \in found }
                 : colour \in { "Red", "Blue" } }

\* a score panel that is not refreshed
UpdatePanelTextStale(w) == w

\* fn update_panel_text: format!("Score: {}", current_score)
UpdatePanelText(w) == [w EXCEPT !.score_text = << "Score: ", w.current_score >>]

\* a game that also ends at score 0
GameIsLostAtZero(w) == w.current_score <= 0

\* if game_context.current_score < 0
GameIsLost(w) == w.current_score < 0

\* the entities of which check_for_hits changed a component: the world a as
\* it found it against the world b as it left it
GameEntities == 1..(NumCubes + 6)
Touched(a, b) ==
    { e \in GameEntities :
        \/ (e \in a.visible) # (e \in b.visible)
        \/ (e \in a.rigid_body) # (e \in b.rigid_body)
        \/ (e \in a.collider) # (e \in b.collider)
        \/ e \in Cubes /\ a.sound[e] # b.sound[e] }

\* the Playing arm of run, from the world spawn_cube left; live are the cubes
\* check_for_hits found alive, touched the entities it changed
RunPlaying(w, hits) ==
    IF w.crashed # "no"
    THEN [w |-> w, next |-> NoState, live |-> LiveCubes(w), touched |-> {}]
    ELSE LET checked == CheckForHits(w, hits) IN
         IF checked.crashed # "no"
         THEN [w |-> checked, next |-> NoState, live |-> LiveCubes(w),
               touched |-> Touched(w, checked)]
         ELSE LET shown == UpdatePanelText(checked) IN
              [w |-> shown,
               next |-> IF GameIsLost(shown) THEN GameAt("GameOver") ELSE NoState,
               live |-> LiveCubes(w), touched |-> Touched(w, checked)]

\* panel.buttons.iter().filter(|p| p.clicked_this_frame).next()
FirstClicked(buttons) ==
    LET clicked == { i \in DOMAIN buttons : buttons[i].clicked_this_frame }
    IN  IF clicked = {} THEN 0 ELSE CHOOSE i \in clicked : \A j \in clicked : i <= j

\* fn run: the world it leaves and the state it returns
Run(w, hits) ==
    CASE w.state.name = "Init" ->
            { [w |-> w, next |-> GameAt("MainMenu"), live |-> LiveCubes(w), touched |-> {}] }
      [] w.state.name = "MainMenu" ->
            LET i == FirstClicked(w.panel.buttons) IN
            { [w |-> w,
               next |-> IF i = 0 THEN NoState ELSE Playing(w.panel.buttons[i].text),
               live |-> LiveCubes(w), touched |-> {}] }
      [] w.state.name = "Playing" ->
            { RunPlaying(spawned_in, hits) : spawned_in \in SpawnCube(w, w.state.song) }
      [] w.state.name = "GameOver" ->
            IF w.panel.buttons = << >>
            THEN { [w |-> Panic(w, "no button"), next |-> NoState, live |-> LiveCubes(w), touched |-> {}] }
            ELSE { [w |-> w,
                    next |-> IF w.panel.buttons[1].clicked_this_frame
                             THEN GameAt("MainMenu") ELSE NoState,
                    live |-> LiveCubes(w), touched |-> {}] }

\* the songs offered in the main menu: those with a beat
Playable == { title \in SongTitles : BeatLength(title) > 0 }

\* a new game that keeps the score of the last one
ResetScoreKeeps(w) == w

\* game_context.current_score = 0
ResetScore(w) == [w EXCEPT !.current_score = 0]

\* the arms of transition's match, over the orders the song map and the live
\* cubes query may iterate in
Transition(w, next_state) ==
    CASE w.state.name \in { "Init", "GameOver" } /\ next_state.name = "MainMenu" ->
            { [ Hide(Show(w, { Pointer, MainMenuPanel }), { ScorePanel, BlueSaber, RedSaber })
                EXCEPT !.track = "Main Menu",
                       !.panel = [ text |-> << "Main Menu" >>,
                                   buttons |-> [i \in DOMAIN titles |-> PanelButton(titles[i])] ],
                       !.elapsed = Saturate(w.elapsed + MenuRewind),
                       !.state = next_state ]
              : titles \in QueryOrders(Playable) }
      [] w.state.name = "MainMenu" /\ next_state.name = "Playing" ->
            { [ Hide(Show(ResetScore(w), { ScorePanel, BlueSaber, RedSaber }),
                     { Pointer, MainMenuPanel })
                EXCEPT !.track = next_state.song,
                       !.state = next_state ] }
      [] w.state.name = "Playing" /\ next_state.name = "GameOver" ->
            { LET shown == Hide(Show(w, { Pointer, MainMenuPanel }),
                                { ScorePanel, BlueSaber, RedSaber })
                  disposed == DisposeOfCubes(live_cubes, 1, shown)
                  message == IF w.current_score > 0 THEN "You did adequately!"
                             ELSE "YOU FAILED!"
              IN  IF disposed.crashed # "no" THEN disposed
                  ELSE [ disposed
                         EXCEPT !.track = "Game Over",
                                !.panel = [ text |-> << "Game Over", message >>,
                                            buttons |-> << PanelButton("Back to main menu") >> ],
                                !.state = next_state ]
              : live_cubes \in QueryOrders(LiveCubes(w)) }
      [] OTHER -> { Panic(w, "Invalid state transition") }

\* pub fn game_system: every world one call can leave, with what run returned
GameSystem(w, hits) ==
    UNION { IF r.w.crashed # "no" \/ r.next = NoState
            THEN { r }
            ELSE { [r EXCEPT !.w = t] : t \in Transition(r.w, r.next) }
            : r \in Run(w, hits) }

\* the collisions physics may report in one frame: up to MaxHits, of a cube
\* with a saber or the backstop, or of the two sabers with each other
Contacts ==
    ({ "blue", "red", "backstop" } \X Cubes)
        \cup { << "blue", RedSaber >>, << "red", BlueSaber >> }
\* the entities of the contacts with one collider, in the order reported
RECURSIVE With(_, _)
With(contacts, who) ==
    IF contacts = << >> THEN << >>
    ELSE (IF Head(contacts)[1] = who THEN << Head(contacts)[2] >> ELSE << >>)
         \o With(Tail(contacts), who)
HitChoices ==
    { [ blue |-> With(contacts, "blue"), red |-> With(contacts, "red"),
        backstop |-> With(contacts, "backstop") ] :
        contacts \in UNION { [1..k -> Contacts] : k \in 0..MaxHits } }

\* GameContext::new: the entities exist, the pool's cubes are dead, no game
\* has begun; v are the entities on show and i those with an Info
NewGame(v, i) ==
    /\ state = GameAt("Init")
    /\ current_score = 0
    /\ visible = v
    /\ rigid_body = { BlueSaber, RedSaber, Backstop }
    /\ collider = { BlueSaber, RedSaber, Backstop }
    /\ sound = [e \in Cubes |-> "None"]
    /\ info = i
    /\ panel = [text |-> << >>, buttons |-> << >>]
    /\ score_text = << >>
    /\ track = NoSong
    /\ elapsed = 0
    /\ haptic = NoHaptics
    /\ collisions = NoCollisions
    /\ crashed = "no"
    /\ prev = [ state |-> GameAt("Init"), score |-> 0, live |-> {}, dead |-> {},
                touched |-> {}, elapsed |-> 0, first |-> FALSE ]
    /\ returned = NoState

\* one frame: time passes by dt, physics reports hits, game_system runs
Tick(dt, hits) ==
    /\ crashed = "no"
    /\ state.name # "Playing" => hits = NoCollisions
    /\ LET w == [Context EXCEPT !.elapsed = Saturate(elapsed + dt), !.haptic = NoHaptics]
       IN  \E r \in GameSystem(w, hits) :
                /\ r.w.current_score <= MaxScore
                /\ state' = r.w.state
                /\ current_score' = r.w.current_score
                /\ visible' = r.w.visible
                /\ rigid_body' = r.w.rigid_body
                /\ collider' = r.w.collider
                /\ sound' = r.w.sound
                /\ panel' = r.w.panel
                /\ score_text' = r.w.score_text
                /\ track' = r.w.track
                /\ elapsed' = r.w.elapsed
                /\ haptic' = r.w.haptic
                /\ crashed' = r.w.crashed
                /\ returned' = r.next
                /\ prev' = [ state |-> state, score |-> current_score, live |-> r.live,
                             dead |-> DeadCubes(w), touched |-> r.touched,
                             elapsed |-> w.elapsed,
                             first |-> (state.name = "Playing"
                                        /\ prev.state.name = "MainMenu") ]
    /\ collisions' = hits
    /\ UNCHANGED info
    /\ UNCHANGED vars

\* the player points at button i of the main menu panel and pulls the trigger
Click(i) ==
    /\ crashed = "no"
    /\ MainMenuPanel \in visible
    /\ i \in DOMAIN panel.buttons
    /\ ~panel.buttons[i].clicked_this_frame
    /\ panel' = [panel EXCEPT !.buttons[i].clicked_this_frame = TRUE]
    /\ UNCHANGED << state, current_score, visible, rigid_body, collider, sound, info,
                    score_text, track, elapsed, haptic, collisions, crashed, prev,
                    returned >>
    /\ UNCHANGED vars

\* ---------------------------------------------------------- specifications
Init == NewWorld /\ NewGame({}, {})

\* a scene of up to MaxScene entities, spawned, then edited and resolved
Next ==
    \/ \E m \in MatrixInputs \cup {NoMatrix}, p \in Entities \cup {NoEntity} :
            spawned < MaxScene /\ Spawn(m, p)
    \/ \E e \in Entities, p \in Entities : InsertParent(e, p)
    \/ \E e \in Entities : RemoveParent(e)
    \/ \E e \in Entities : Despawn(e)
    \/ Pass

Spec == Init /\ [][Next]_vars

\* a scene of up to NumEntities entities that only translate, spawned and
\* resolved by one pass
TranslationInputs == { Translation(t) : t \in 1..MaxOffset }

NextTranslations ==
    \/ \E m \in TranslationInputs \cup {NoMatrix}, p \in Entities \cup {NoEntity} : Spawn(m, p)
    \/ passes = 0 /\ Pass

SpecTranslations == Init /\ [][NextTranslations]_vars

\* the game, from GameContext::new on, frame by frame
InitGame ==
    /\ NewWorld
    /\ \E v \in SUBSET { Pointer, MainMenuPanel, ScorePanel, BlueSaber, RedSaber } :
       \E i \in { {}, Cubes } : NewGame(v, i)

NextGame ==
    \/ \E dt \in 0..1, hits \in HitChoices : Tick(dt, hits)
    \/ \E i \in 1..Cardinality(Playable) : Click(i)

SpecGame == InitGame /\ [][NextGame]_gameVars

\* ------------------------------------------------------------- properties
\* the last operation was a pass: matrix is its result, before its input
AfterPass == streak > 0
\* ... and the pass returned
Completed == AfterPass /\ outcome = "ok"

\* an entity of the store with a Parent component / with a matrix and none
Child(e) == e \in alive /\ parent[e] # NoEntity
Parentless(e) == e \in alive /\ parent[e] = NoEntity /\ matrix[e] # NoMatrix

\* the k-th entity up the Parent relation from e, NoEntity when there is none
RECURSIVE Up(_, _)
Up(e, k) ==
    IF k = 0 THEN e
    ELSE IF e \in alive /\ parent[e] # NoEntity THEN Up(parent[e], k - 1)
    ELSE NoEntity

\* e and the entities above it
Chain(e) == { Up(e, k) : k \in 0..NumEntities } \ {NoEntity}

\* no chain of Parent relations loops back on itself
Acyclic == \A e \in alive : \A k \in 1..NumEntities : Up(e, k) # e

\* the Parent relations from e lead up to a root: the traversal reaches e
FromRoot(e) == \E k \in 0..NumEntities : Parentless(Up(e, k))
RootOf(e) == CHOOSE r \in Chain(e) : Parentless(r)
Depth(e) == CHOOSE k \in 0..NumEntities : Parentless(Up(e, k))

\* the pass has to fail: it reaches an entity with a Parent and no matrix
ReachesMissing == \E e \in alive : Child(e) /\ FromRoot(e) /\ matrix[e] = NoMatrix

\* C1: after a pass over an acyclic store, every entity reachable from a root
\* holds (its parent's matrix after the pass) x (its own matrix before the
\* pass), and every root holds its own matrix.
C1_WorldIsParentTimesLocal ==
    (Completed /\ Acyclic) =>
        \A e \in alive :
            /\ Parentless(e) => matrix[e] = before[e]
            /\ (Child(e) /\ FromRoot(e)) =>
                    matrix[e] = MatMul(matrix[parent[e]], before[e])

\* a chain of depth 2 resolved, where the order of the product matters
C1_Witness ==
    /\ Completed /\ Acyclic
    /\ \E e \in alive :
        /\ Child(e) /\ FromRoot(e) /\ Depth(e) = 2
        /\ matrix[e] = MatMul(matrix[parent[e]], before[e])
        /\ matrix[e] # MatMul(before[e], matrix[parent[e]])
        /\ matrix[parent[e]] # before[parent[e]]

\* C2: in a chain whose entities all hold translation-by-t, after one pass
\* the entity at depth d below the root holds translation((d+1)*t).
C2_Accumulation ==
    Completed =>
        \A e \in alive :
            FromRoot(e) =>
                \A t \in 1..MaxOffset :
                    (\A x \in Chain(e) : before[x] = Translation(t))
                        => matrix[e] = Translation((Depth(e) + 1) * t)

\* root -> A -> B, all translation-by-2: World(A) = translation(4) and
\* World(B) = translation(6)
C2_Witness ==
    /\ Completed
    /\ \E b \in alive :
        /\ FromRoot(b) /\ Depth(b) = 2
        /\ \A x \in Chain(b) : before[x] = Translation(2)
        /\ matrix[parent[b]] = Translation(4)
        /\ matrix[b] = Translation(6)

\* root's base composed with the offset repeated n times (get_expected_matrix)
RECURSIVE Expected(_, _, _)
Expected(base, offset, n) ==
    IF n = 0 THEN base ELSE MatMul(Expected(base, offset, n - 1), offset)

\* C3: in a tree whose non-root nodes all hold the same translation offset,
\* after one pass every node holds the root's base translation composed with
\* the offset (depth of the node) times, whatever the order in which the
\* Parent relations were scanned and the siblings stored in the map; on a
\* scene just spawned the results of the pass over all query orders are one
\* and the same.
C3_Branching ==
    /\ Completed =>
        \A e \in alive :
            FromRoot(e) =>
                \A d \in 1..MaxOffset :
                    (\A x \in Chain(e) \ {RootOf(e)} : before[x] = Translation(d))
                        => matrix[e] = Expected(before[RootOf(e)], Translation(d), Depth(e))
    /\ (passes = 0 /\ ~ReachesMissing) =>
        \A r1, r2 \in PassResults : r1.m = r2.m /\ r1.status = "ok"

\* a root with two children and a grandchild, base 2 and offset 1, the
\* siblings stored in the map against their spawn order
C3_Witness ==
    /\ Completed
    /\ \E r \in alive : \E c \in alive : \E g \in alive :
        /\ Parentless(r) /\ before[r] = Translation(2)
        /\ r \in DOMAIN hierarchy /\ Len(hierarchy[r]) = 2
        /\ hierarchy[r][1] > hierarchy[r][2]
        /\ parent[c] = r /\ parent[g] = c
        /\ \A x \in alive \ {r} : before[x] = Translation(1)
        /\ matrix[c] = Translation(3) /\ matrix[g] = Translation(4)
        /\ \A x \in alive \ {r, g} : matrix[x] = Translation(3)

\* C4 as claimed: a second pass in succession leaves every matrix as the
\* first pass left it.
C4_Idempotent ==
    (streak >= 2 /\ outcome = "ok") => \A e \in alive : matrix[e] = before[e]

\* C4: a second pass in succession leaves the roots and the entities not
\* reachable from a root as the first pass left them, and composes every
\* entity reachable from a root with its parent once more: it holds (its
\* parent's matrix after the second pass) x (its own after the first).
C4_SecondPassComposesAgain ==
    (streak >= 2 /\ outcome = "ok") =>
        \A e \in alive :
            IF Child(e) /\ FromRoot(e)
            THEN matrix[e] = MatMul(matrix[parent[e]], before[e])
            ELSE matrix[e] = before[e]

\* two passes in succession: a child holds its parent's matrix twice over,
\* its root is as it was
C4_Witness ==
    /\ streak = 2 /\ outcome = "ok"
    /\ \E e \in alive :
        /\ Child(e) /\ Parentless(parent[e])
        /\ before[e] = MatMul(matrix[parent[e]], local[e])
        /\ matrix[e] = MatMul(matrix[parent[e]], before[e])
        /\ matrix[e] # before[e]
        /\ matrix[parent[e]] = before[parent[e]]

\* the entity whose Parent was replaced or removed after a pass, the next
\* pass having run since: it is in the store and has a matrix
Reparented(e) ==
    /\ Completed /\ streak = 1
    /\ e # NoEntity /\ moved = e
    /\ e \in alive /\ matrix[e] # NoMatrix

\* C5 as claimed: after the next pass a re-parented entity holds what the new
\* topology alone gives: new parent's matrix x its local matrix, or its local
\* matrix if it is now a root.
C5_NoStaleContribution ==
    \A e \in Entities :
        Reparented(e) =>
            /\ Parentless(e) => matrix[e] = local[e]
            /\ (Child(e) /\ FromRoot(e)) =>
                    matrix[e] = MatMul(matrix[parent[e]], local[e])

\* C5: after the next pass a re-parented entity holds the new topology applied
\* to the matrix it had when that pass began (which the earlier pass had
\* composed with the previous parent): new parent's matrix x that matrix, or
\* that matrix unchanged if it is now a root or below no root.
C5_ReparentedComposesStored ==
    \A e \in Entities :
        Reparented(e) =>
            IF Child(e) /\ FromRoot(e)
            THEN matrix[e] = MatMul(matrix[parent[e]], before[e])
            ELSE matrix[e] = before[e]

\* an entity moved under another root between two passes: the previous
\* parent's contribution is still in its matrix
C5_Witness ==
    \E e \in Entities :
        /\ Reparented(e)
        /\ Child(e) /\ Parentless(parent[e])
        /\ before[e] # local[e]
        /\ matrix[e] = MatMul(matrix[parent[e]], before[e])
        /\ matrix[e] # MatMul(matrix[parent[e]], local[e])

C7_RootIdentity ==
    \A e \in alive :
        Parentless(e) =>
            /\ AfterPass => matrix[e] = before[e]
            /\ edits = 0 => matrix[e] = local[e]

\* a root with two children, resolved twice
C7_Witness ==
    /\ Completed /\ passes = 2 /\ edits = 0
    /\ \E r \in alive :
        /\ Parentless(r) /\ matrix[r] = local[r]
        /\ r \in DOMAIN hierarchy /\ Len(hierarchy[r]) = 2
        /\ \A i \in 1..2 : matrix[hierarchy[r][i]] # local[hierarchy[r][i]]

\* A's parent is B and B's parent is A
TwoCycle(a, b) ==
    /\ a \in alive /\ b \in alive /\ a # b
    /\ parent[a] = b /\ parent[b] = a

\* C8 as claimed: a pass over a store with a 2-entity cycle fails fatally.
C8_CycleIsFatal ==
    (AfterPass /\ \E a, b \in Entities : TwoCycle(a, b)) => outcome # "ok"

\* C8: a pass over a store with a 2-entity cycle never recurses without bound:
\* both relations are in the map, neither entity is visited, their matrices
\* stay as they were, and the pass fails only where it reaches an entity
\* without a matrix below some root.
C8_CycleIsSkipped ==
    AfterPass =>
        \A a, b \in Entities :
            TwoCycle(a, b) =>
                /\ outcome # "overflow"
                /\ outcome = "panic" => ReachesMissing
                /\ a \in DOMAIN hierarchy /\ b \in DOMAIN hierarchy
                /\ matrix[a] = before[a] /\ matrix[b] = before[b]

\* a cycle of two entities with matrices, and a pass that returned
C8_Witness ==
    /\ Completed
    /\ \E a, b \in Entities :
        /\ TwoCycle(a, b)
        /\ matrix[a] # NoMatrix /\ matrix[b] # NoMatrix
        /\ hierarchy[a] = << b >> /\ hierarchy[b] = << a >>

\* e's Parent names an entity that is no longer in the store
Dangling(e) == Child(e) /\ parent[e] \in 1..spawned /\ parent[e] \notin alive

\* C9 as claimed: a pass over a store with a dangling Parent fails fatally.
C9_DanglingIsFatal ==
    (AfterPass /\ \E e \in Entities : Dangling(e)) => outcome # "ok"

\* C9: a dangling Parent is recorded in the map and never dereferenced: the
\* entity and everything below it keep their matrices, and the pass fails
\* only where it reaches an entity without a matrix below some root.
C9_DanglingIsSkipped ==
    AfterPass =>
        \A e \in Entities :
            Dangling(e) =>
                /\ parent[e] \in DOMAIN hierarchy
                /\ \A x \in alive : e \in Chain(x) => matrix[x] = before[x]
                /\ outcome = "ok" <=> ~ReachesMissing

\* a child whose parent was despawned, with a child of its own, and a pass
\* that returned
C9_Witness ==
    /\ Completed
    /\ \E e \in Entities : \E x \in alive :
        /\ Dangling(e) /\ matrix[e] # NoMatrix
        /\ parent[x] = e /\ matrix[x] # NoMatrix

\* C10 as claimed: a pass over a store where some entity has a Parent and no
\* matrix fails with the lookup failure.
C10_MissingMatrixIsFatal ==
    (AfterPass /\ \E e \in alive : Child(e) /\ matrix[e] = NoMatrix)
        => outcome = "panic"

\* C10: a pass fails with the lookup failure exactly when an entity with a
\* Parent and no matrix is reachable from a root; where it is not, the entity
\* is skipped and the pass returns.
C10_MissingMatrixFatalWhenReached ==
    AfterPass => (outcome = "panic" <=> ReachesMissing)

\* a grandchild without a matrix: the pass wrote its parent, then failed
C10_Witness ==
    /\ AfterPass /\ outcome = "panic"
    /\ \E e \in alive :
        /\ Child(e) /\ matrix[e] = NoMatrix
        /\ FromRoot(e) /\ Depth(e) = 2
        /\ matrix[parent[e]] # before[parent[e]]

\* ------------------------------------------------- the steps of the last pass
Steps(op) == { i \in DOMAIN log : log[i].op = op }
ScannedSet == { log[i].e : i \in Steps("scan") }
VisitedSet == { log[i].e : i \in Steps("visit") }
WrittenSet == { log[i].e : i \in Steps("write") }
IsScan(ev) == ev.op = "scan"
\* the entities the parent query yielded, in its order
ScanOrder == [i \in 1..Cardinality(Steps("scan")) |-> SelectSeq(log, IsScan)[i].e]

\* how often c occurs in the list s
Count(s, c) == Cardinality({ i \in DOMAIN s : s[i] = c })
\* the entries of s that are in keep, in their order
RECURSIVE Filter(_, _)
Filter(s, keep) ==
    IF s = << >> THEN << >>
    ELSE (IF Head(s) \in keep THEN << Head(s) >> ELSE << >>) \o Filter(Tail(s), keep)

\* the children a key of the map lists
Listed(k) == IF k \in DOMAIN hierarchy THEN { hierarchy[k][i] : i \in DOMAIN hierarchy[k] } ELSE {}

\* an entity with no matrix and no Parent that is nobody's parent
Bare(e) ==
    /\ e \in alive
    /\ matrix[e] = NoMatrix /\ before[e] = NoMatrix
    /\ parent[e] = NoEntity
    /\ \A c \in alive : parent[c] # e

\* C11: an entity with no matrix, no Parent and no children is not scanned,
\* visited or written by a pass, is in no entry of the map and still has no
\* matrix afterwards; a pass does not fail because of it (a failing pass
\* reached a child without a matrix), and a pass over a store of such
\* entities only returns having done nothing.
C11_BareEntitiesUntouched ==
    AfterPass =>
        /\ \A e \in Entities :
                Bare(e) =>
                    /\ e \notin ScannedSet \cup VisitedSet \cup WrittenSet
                    /\ e \notin DOMAIN hierarchy
                    /\ \A k \in DOMAIN hierarchy : e \notin Listed(k)
                    /\ matrix[e] = before[e]
        /\ outcome # "ok" => \E e \in alive : ~Bare(e) /\ Child(e) /\ matrix[e] = NoMatrix
        /\ (\A e \in alive : Bare(e)) =>
                outcome = "ok" /\ log = << >> /\ hierarchy = EmptyMap

\* a bare entity next to a root whose child the pass wrote
C11_Witness ==
    /\ Completed
    /\ \E e \in alive : Bare(e)
    /\ \E c \in alive : Child(c) /\ c \in WrittenSet /\ matrix[c] # before[c]

\* C12: the map a pass built lists every entity c with Parent p exactly once
\* under key p and under no other key; every key has a non-empty list and
\* every listed entity has its key as Parent; the parent query yielded each
\* entity with a Parent once, and each list is the entities of that key in
\* the order the query yielded them.
C12_HierarchyBuilder ==
    AfterPass =>
        /\ \A c \in Entities :
                Child(c) =>
                    /\ parent[c] \in DOMAIN hierarchy
                    /\ \A k \in DOMAIN hierarchy :
                            Count(hierarchy[k], c) = (IF k = parent[c] THEN 1 ELSE 0)
        /\ \A k \in DOMAIN hierarchy :
                /\ hierarchy[k] # << >>
                /\ \A c \in Listed(k) : Child(c) /\ parent[c] = k
                /\ hierarchy[k] = Filter(ScanOrder, { c \in Entities : parent[c] = k })
        /\ ScannedSet = { c \in Entities : Child(c) }
        /\ Len(ScanOrder) = Cardinality(ScannedSet)

\* a map of two keys, one with two children that the query yielded against
\* the order they were spawned in
C12_Witness ==
    /\ AfterPass
    /\ Cardinality(DOMAIN hierarchy) = 2
    /\ \E k \in DOMAIN hierarchy :
        /\ Len(hierarchy[k]) = 2
        /\ hierarchy[k][1] > hierarchy[k][2]

\* the entities a pass has to write: those with a Parent below some root
Reached == { e \in Entities : Child(e) /\ FromRoot(e) }

\* C13: a pass that returns has written the matrix of exactly the entities
\* that have a Parent and are reachable from a root (a pass that fails, of
\* some of them); the matrix of every other entity is as it was; the parent
\* query is read to its end before the first visit or write; and a pass
\* changes no Parent and adds or removes no entity.
C13_WriteSetState ==
    AfterPass =>
        /\ WrittenSet \subseteq Reached
        /\ outcome = "ok" => WrittenSet = Reached
        /\ \A e \in Entities : e \notin WrittenSet => matrix[e] = before[e]
        /\ \A i \in Steps("scan") : \A j \in DOMAIN log \ Steps("scan") : i < j
C13_WriteSet ==
    /\ []C13_WriteSetState
    /\ [][passes' # passes =>
            (parent' = parent /\ alive' = alive /\ spawned' = spawned)]_vars

\* a pass that wrote the child of a root and left the root and a child below
\* no root as they were
C13_Witness ==
    /\ Completed
    /\ \E e \in WrittenSet : Parentless(parent[e]) /\ matrix[e] # before[e]
    /\ \E r \in alive : Parentless(r) /\ r \notin WrittenSet
    /\ \E f \in alive : Child(f) /\ f \notin Reached /\ matrix[f] # NoMatrix

\* C14: the map every pass uses holds exactly the Parent relations of the
\* store as that pass found it, whatever was despawned, removed or
\* re-parented since the pass before: every entity written is in the store
\* and was written as a child of the entity its Parent now names, and every
\* entity visited is in the store.
C14_MapIsRebuilt ==
    AfterPass =>
        /\ \A k \in Entities : Listed(k) = { c \in Entities : Child(c) /\ parent[c] = k }
        /\ \A i \in Steps("write") :
                log[i].e \in alive /\ parent[log[i].e] = log[i].under
        /\ VisitedSet \subseteq alive

\* a pass, a re-parenting of a child from one root to another, and a pass
\* that wrote the child under its new parent only
C14_Witness ==
    /\ Completed /\ passes = 2 /\ streak = 1
    /\ moved # NoEntity /\ moved \in alive
    /\ Parentless(parent[moved])
    /\ moved \in Listed(parent[moved])
    /\ \A k \in Entities \ {parent[moved]} : moved \notin Listed(k)
    /\ \E i \in Steps("write") : log[i].e = moved /\ log[i].under = parent[moved]

\* ------------------------------------------------- properties of the game
\* the process has not panicked
Alive == crashed = "no"
\* the last tick began in Playing and returned
PlayedTick == prev.state.name = "Playing" /\ Alive

\* the steps GameState may take
Edge(from, to) ==
    \/ from.name = "Init" /\ to = GameAt("MainMenu")
    \/ from.name = "MainMenu" /\ to.name = "Playing" /\ BeatLength(to.song) > 0
    \/ from.name = "Playing" /\ to = GameAt("GameOver")
    \/ from.name = "GameOver" /\ to = GameAt("MainMenu")

\* C15: the game state only ever steps Init -> MainMenu, MainMenu ->
\* Playing(song), Playing -> GameOver, GameOver -> MainMenu; transition never
\* panics with "Invalid state transition"; a tick in which run returned None
\* left the state as it was, and one in which it returned a state left that
\* state.
C15_GameFlow ==
    /\ [][state' # state => Edge(state, state')]_gameVars
    /\ [](crashed # "Invalid state transition")
    /\ [](Alive => state = (IF returned = NoState THEN prev.state ELSE returned))

\* a game played and lost, and the player back in the main menu
C15_Witness ==
    /\ Alive
    /\ state = GameAt("MainMenu")
    /\ prev.state = GameAt("GameOver")
    /\ returned = GameAt("MainMenu")
    /\ current_score < 0

MenuShown ==
    /\ { Pointer, MainMenuPanel } \subseteq visible
    /\ { BlueSaber, RedSaber, ScorePanel } \cap visible = {}
GameShown ==
    /\ { BlueSaber, RedSaber, ScorePanel } \subseteq visible
    /\ { Pointer, MainMenuPanel } \cap visible = {}

\* C16: once Init has been left, in MainMenu and in GameOver the pointer and
\* the main menu panel are Visible and the sabers and the score panel are
\* not; in Playing it is the other way round.
C16_VisibilityFollowsState ==
    /\ state.name \in { "MainMenu", "GameOver" } => MenuShown
    /\ state.name = "Playing" => GameShown

\* a game begun from a start in which the sabers were hidden and the pointer
\* shown, now lost
C16_Witness ==
    /\ state.name = "GameOver" /\ MenuShown
    /\ prev.state.name = "Playing"

\* the indices of a collision list that name a cube check_for_hits found
\* alive, of the colour given
LiveHits(list, colours) ==
    { i \in DOMAIN list : list[i] \in prev.live /\ ColourOf(list[i]) \in colours }
BothColours == { "Red", "Blue" }

\* C17: after a Playing tick the score is the score before, plus 1 for every
\* Blue cube and minus 1 for every Red cube in the blue saber's collisions,
\* plus 1 for every Red and minus 1 for every Blue cube in the red saber's,
\* minus 1 for every cube in the backstop's; a cube listed twice counts twice.
C17_Scoring ==
    PlayedTick =>
        current_score = prev.score
            + Cardinality(LiveHits(collisions.blue, { "Blue" }))
            - Cardinality(LiveHits(collisions.blue, { "Red" }))
            + Cardinality(LiveHits(collisions.red, { "Red" }))
            - Cardinality(LiveHits(collisions.red, { "Blue" }))
            - Cardinality(LiveHits(collisions.backstop, BothColours))

\* a red cube that touched the blue saber and the backstop in one frame:
\* two points lost
C17_Witness ==
    /\ PlayedTick
    /\ \E c \in prev.live :
        /\ ColourOf(c) = "Red"
        /\ collisions.blue = << c >> /\ collisions.backstop = << c >>
        /\ current_score = prev.score - 2

\* C18: a Playing tick ends in GameOver exactly when the score is below 0
\* once the hits are counted; with a score of 0 or more the game is still
\* Playing the same song.
C18_GameOverBelowZero ==
    PlayedTick =>
        /\ state.name = "GameOver" <=> current_score < 0
        /\ current_score >= 0 => state = prev.state

\* a score that fell from 1 to exactly 0: still playing
C18_Witness ==
    /\ PlayedTick
    /\ prev.score = 1 /\ current_score = 0
    /\ state.name = "Playing"

\* the cubes the last tick scored for a collider
ScoredBy(list) == { list[i] : i \in LiveHits(list, BothColours) }
Scored == ScoredBy(collisions.blue) \cup ScoredBy(collisions.red)
            \cup ScoredBy(collisions.backstop)

\* C19: after a Playing tick that returned, every cube it scored has no
\* Visible, RigidBody or Collider, carries a SoundEmitter "Hit" or "Miss",
\* and the right hand was asked for amplitude 1 if the blue saber hit it, the
\* left hand if the red saber did.
C19_ScoredCubesDisposed ==
    PlayedTick =>
        /\ \A c \in Scored :
            /\ c \notin visible /\ c \notin rigid_body /\ c \notin collider
            /\ sound[c] \in { "Hit", "Miss" }
        /\ ScoredBy(collisions.blue) # {} => haptic.right = 1
        /\ ScoredBy(collisions.red) # {} => haptic.left = 1

\* a blue cube hit by the blue saber alone, the game still on
C19_Witness ==
    /\ PlayedTick /\ state.name = "Playing"
    /\ \E c \in ScoredBy(collisions.blue) : sound[c] = "Hit" /\ c \notin visible
    /\ haptic.right = 1 /\ haptic.left = 0

\* C20: in GameOver no cube is live (none has Colour, Cube, Visible,
\* RigidBody and Collider), the main menu panel shows "Game Over" and the
\* one button "Back to main menu".
C20_GameOverClearsCubes ==
    state.name = "GameOver" =>
        /\ \A c \in Cubes : ~(c \in visible /\ c \in rigid_body /\ c \in collider)
        /\ panel.text[1] = "Game Over"
        /\ Len(panel.buttons) = 1
        /\ panel.buttons[1].text = "Back to main menu"

\* a game lost while a cube that nothing touched was in the air
C20_Witness ==
    /\ state.name = "GameOver" /\ prev.state.name = "Playing" /\ Alive
    /\ \E c \in prev.live : c \notin Scored /\ c \notin visible /\ c \notin rigid_body

\* the last tick took the game from MainMenu into Playing
JustEntered == Alive /\ prev.state.name = "MainMenu" /\ state.name = "Playing"

\* C21: the tick that takes the game from MainMenu into Playing leaves
\* current_score at 0, whatever it was before that tick.
C21_NewGameStartsAtZero ==
    JustEntered => current_score = 0

\* a second game begun after one that was lost at a score below 0
C21_Witness ==
    /\ JustEntered
    /\ prev.score < 0
    /\ current_score = 0

\* C22: check_for_hits changes components only of the cubes it scored, which
\* had Cube, Visible, Collider and RigidBody when it ran; a Playing tick whose
\* collisions name no such cube leaves the score, the state and every
\* component as they were.
C22_OnlyLiveCubesCount ==
    PlayedTick =>
        /\ prev.touched \subseteq Scored
        /\ Scored \subseteq prev.live
        /\ Scored = {} => (current_score = prev.score /\ state = prev.state)

\* the two sabers touched each other and the blue saber a dead cube: nothing
\* scored, nothing changed
C22_Witness ==
    /\ PlayedTick
    /\ \E c \in Cubes :
        /\ c \notin prev.live
        /\ collisions = [blue |-> << RedSaber, c >>, red |-> << >>, backstop |-> << >>]
    /\ prev.touched = {} /\ current_score = prev.score
    /\ { BlueSaber, RedSaber } \subseteq visible \cap rigid_body \cap collider

\* the cubes the last tick revived
Revived == prev.live \cap prev.dead

\* C23: a Playing tick that returned has revived exactly one dead cube and
\* set the time since the last spawn to 0 if that time exceeded the song's
\* beat length when the tick began, and has revived none and left the time
\* alone otherwise; the first Playing tick after MainMenu -> Playing has
\* revived exactly one.
C23_CubeSpawning ==
    PlayedTick =>
        /\ IF prev.elapsed > BeatLength(prev.state.song)
           THEN Cardinality(Revived) = 1 /\ elapsed = 0
           ELSE Revived = {} /\ elapsed = prev.elapsed
        /\ prev.first => Cardinality(Revived) = 1

\* the first tick of a game: one cube in the air
C23_Witness ==
    /\ PlayedTick /\ prev.first
    /\ Cardinality(Revived) = 1
    /\ \E c \in Revived : c \in visible /\ c \in rigid_body /\ c \in collider
    /\ elapsed = 0

\* C24: after a Playing tick that returned the score panel reads "Score: "
\* followed by current_score.
C24_ScorePanelText ==
    PlayedTick => score_text = << "Score: ", current_score >>

\* a point scored and shown
C24_Witness ==
    /\ PlayedTick /\ state.name = "Playing"
    /\ prev.score = 0 /\ current_score = 1
    /\ score_text = << "Score: ", 1 >>

\* the visits of entity e in the last pass, and the writes of its matrix
VisitsOf(e) == { i \in Steps("visit") : log[i].e = e }
WritesOf(e) == { i \in Steps("write") : log[i].e = e }

\* C25: in a pass, every write of a child's matrix under a parent comes after
\* the visit of that parent and is the matrix that visit was given times the
\* child's matrix before the pass; an entity with a Parent is visited only
\* after its own matrix was written, with the matrix just written, and no
\* visited entity is written again: what a visit was given is what the
\* entity holds when the pass ends.
C25_ParentBeforeChild ==
    AfterPass =>
        /\ \A i \in Steps("write") :
            LET above == { j \in VisitsOf(log[i].under) : j < i }
            IN  /\ above # {}
                /\ \A j \in above : log[i].m = MatMul(log[j].m, before[log[i].e])
        /\ \A j \in Steps("visit") :
            LET e == log[j].e IN
                /\ log[j].m = matrix[e]
                /\ \A i \in WritesOf(e) : i < j /\ log[i].m = log[j].m
                /\ Child(e) => WritesOf(e) # {}
                /\ ~Child(e) => log[j].m = before[e]

\* a chain root - child - grandchild: the grandchild was written from the
\* matrix its parent had just been given, not the one it had before
C25_Witness ==
    /\ Completed
    /\ \E g \in alive :
        /\ FromRoot(g) /\ Depth(g) = 2
        /\ matrix[parent[g]] # before[parent[g]]
        /\ \E i \in WritesOf(g) : \E j \in VisitsOf(parent[g]) : \E k \in WritesOf(parent[g]) :
            /\ k < j /\ j < i
            /\ log[i].m = MatMul(matrix[parent[g]], before[g])
            /\ log[i].m # MatMul(before[parent[g]], before[g])

\* C26: a pass that returns has visited every entity reachable from a root
\* exactly once, has written every such entity with a Parent exactly once
\* and no root; a pass, returning or failing, visits and writes no entity
\* twice and none that is not reachable from a root.
C26_VisitedOnce ==
    AfterPass =>
        /\ \A e \in Entities :
            /\ Cardinality(VisitsOf(e)) <= 1
            /\ Cardinality(WritesOf(e)) <= 1
            /\ (VisitsOf(e) # {} \/ WritesOf(e) # {}) => (e \in alive /\ FromRoot(e))
            /\ (e \in alive /\ Parentless(e)) => WritesOf(e) = {}
        /\ outcome = "ok" =>
            \A e \in alive :
                FromRoot(e) =>
                    /\ Cardinality(VisitsOf(e)) = 1
                    /\ Child(e) => Cardinality(WritesOf(e)) = 1

\* a root with two children, each visited once and written once, the root
\* visited once and not written
C26_Witness ==
    /\ Completed
    /\ \E r \in alive :
        /\ Parentless(r)
        /\ Cardinality(VisitsOf(r)) = 1 /\ WritesOf(r) = {}
        /\ Cardinality({ c \in alive : parent[c] = r }) = 2
        /\ \A c \in alive :
            parent[c] = r => Cardinality(VisitsOf(c)) = 1 /\ Cardinality(WritesOf(c)) = 1

\* the entities strictly below a in the Parent relation
Below(a) == { d \in alive : d # a /\ a \in Chain(d) }

\* C27: the traversal is depth-first: the step after the write of a child is
\* the visit of that child; when two children of one node are written one
\* after the other, every visit and write of an entity below the first lies
\* between the two writes; and no write is made under an entity that has no
\* entry in the map.
C27_DepthFirst ==
    AfterPass =>
        /\ \A i \in Steps("write") :
            /\ i + 1 \in DOMAIN log
            /\ log[i + 1].op = "visit" /\ log[i + 1].e = log[i].e
            /\ log[i].under \in DOMAIN hierarchy
        /\ \A i, k \in Steps("write") :
            (i < k /\ log[i].under = log[k].under) =>
                \A d \in Below(log[i].e) \cup { log[i].e } :
                    \A j \in VisitsOf(d) \cup WritesOf(d) : i <= j /\ j < k
        /\ \A e \in VisitedSet :
            e \notin DOMAIN hierarchy => \A i \in Steps("write") : log[i].under # e

\* a root with children a and b, a written first, and a child of a written
\* before b; b has no entry in the map and nothing is written under it
C27_Witness ==
    /\ Completed
    /\ \E i, j, k \in Steps("write") :
        /\ i < j /\ j < k
        /\ log[i].under = log[k].under
        /\ Parentless(log[i].under)
        /\ log[j].under = log[i].e
        /\ log[k].e \in VisitedSet
        /\ log[k].e \notin DOMAIN hierarchy

\* an entity whose Parent names an entity that is not in the store
Orphan(c) == Child(c) /\ parent[c] \notin alive

\* C28: building the map never fails and never looks a parent up: an entity
\* whose Parent names an entity that is not in the store is yielded by the
\* parent query and listed once under that entity's key like any other; the
\* query is read to its end whatever happens afterwards; a key that is not
\* in the store is never visited, and a pass fails only where the traversal
\* reaches a child without a matrix.
C28_BuilderAcceptsDangling ==
    AfterPass =>
        /\ \A c \in Entities :
            Orphan(c) =>
                /\ c \in ScannedSet
                /\ parent[c] \in DOMAIN hierarchy
                /\ Cardinality({ i \in DOMAIN hierarchy[parent[c]] :
                                    hierarchy[parent[c]][i] = c }) = 1
        /\ Cardinality(Steps("scan")) = Cardinality({ c \in Entities : Child(c) })
        /\ \A k \in DOMAIN hierarchy : k \notin alive => k \notin VisitedSet
        /\ outcome # "ok" => (outcome = "panic" /\ ReachesMissing)

\* the parent of a child was despawned: the pass returns with the child
\* listed under the key of the entity that is gone, having visited a root
C28_Witness ==
    /\ Completed
    /\ \E c \in alive :
        /\ Dangling(c)
        /\ hierarchy[parent[c]] = << c >>
        /\ c \in ScannedSet
    /\ \E r \in alive : Parentless(r) /\ r \in VisitedSet

\* C29: a pass ends, whatever the Parent relation: the traversal starts at
\* entities without a Parent only, never enters an entity a second time and
\* never goes deeper than the number of entities in the store, so the call
\* stack is not exhausted; members of a cycle or below a missing parent are
\* not entered at all.
C29_PassTerminates ==
    AfterPass =>
        /\ outcome \in { "ok", "panic" }
        /\ \A e \in Entities : Cardinality(VisitsOf(e)) <= 1
        /\ \A e \in VisitedSet :
            /\ FromRoot(e)
            /\ Depth(e) + 1 <= Cardinality(alive)
            /\ \A k \in 1..NumEntities : Up(e, k) # e
        /\ Len(log) <= 3 * Cardinality(alive)

\* a pass over a store with an entity that is its own parent, or two that
\* are each other's, next to a root it visited: it returned
C29_Witness ==
    /\ Completed
    /\ \E a, b \in alive : parent[a] = b /\ parent[b] = a
    /\ \E r \in alive : Parentless(r) /\ r \in VisitedSet

\* C30: an entity with a Parent that no chain of Parents connects to a root
\* (in a cycle, below a parent that is gone, below a parentless entity
\* without a matrix) is not visited and not written, and holds after the
\* pass the matrix it held before; such entities never make the pass fail: a
\* pass over a store in which every child with a root above it has a matrix
\* returns.
C30_UnreachableUntouched ==
    AfterPass =>
        /\ \A e \in Entities :
            (Child(e) /\ ~FromRoot(e)) =>
                /\ VisitsOf(e) = {} /\ WritesOf(e) = {}
                /\ matrix[e] = before[e]
        /\ ~ReachesMissing => outcome = "ok"

\* a child with a matrix below a parentless entity that has none, and a
\* child without a matrix below a parent that is gone: the pass returned and
\* the first child's matrix is as it was
C30_Witness ==
    /\ Completed
    /\ \E p, c \in alive :
        /\ parent[p] = NoEntity /\ matrix[p] = NoMatrix
        /\ parent[c] = p /\ matrix[c] # NoMatrix /\ matrix[c] = before[c]
        /\ c \in ScannedSet /\ c \notin VisitedSet
    /\ \E d \in alive : parent[d] # NoEntity /\ ~FromRoot(d) /\ matrix[d] = NoMatrix

====
